---- MODULE Spec2Model ----
(***************************************************************************)
(* Model of the Suwi service worker (static/service-worker.js): the        *)
(* install / activate lifecycle, the fetch listener with its three routes  *)
(* (not intercepted, cache-first static assets, network-first pages) and   *)
(* the detached cache writes it spawns.  The host's CacheStorage is a      *)
(* list of named stores in creation order, each a set of (url, response)   *)
(* entries.                                                                *)
(***************************************************************************)
EXTENDS Integers, Sequences, FiniteSets, TLC

VARIABLES
    cacheNames,     \* caches.keys(): names of the existing stores, creation order
    cacheEntries,   \* store name -> set of [url, resp] entries
    swState,        \* lifecycle state of this worker version
    ipc,            \* install: state of the promise given to event.waitUntil
    apc,            \* activate: state of the promise given to event.waitUntil
    skipWaiting,    \* self.skipWaiting() was called
    claimed,        \* self.clients.claim() was called
    delPending,     \* activate: caches.delete calls issued and not settled
    delDone,        \* activate: names whose caches.delete resolved
    delFailed,      \* activate: names whose caches.delete rejected
    atActivate,     \* stores as they were when the activate event was delivered
    ev,             \* fetch events: event number -> record
    nDispatched,    \* number of fetch events delivered so far
    batch,          \* install: what the fetches of cache.addAll settled with
    notif           \* the notificationclick event and what its listener did

vars == <<cacheNames, cacheEntries, swState, ipc, apc, skipWaiting, claimed,
          delPending, delDone, delFailed, atActivate, ev, nDispatched,
          batch, notif>>

lifecycleVars == <<swState, ipc, apc, skipWaiting, claimed,
                   delPending, delDone, delFailed, atActivate, batch>>

(***************************************************************************)
(* Bounds                                                                  *)
(***************************************************************************)
\* number of fetch events delivered in one run
MaxEvents == 2

Events == 1..MaxEvents

(***************************************************************************)
(* Program constants                                                       *)
(***************************************************************************)
CACHE_VERSION == "v1"

CACHE_PREFIX == "suwi-"

CACHE_NAME == CACHE_PREFIX \o CACHE_VERSION

STATIC_ASSETS == <<"/menu/", "/static/css/main.css", "/static/js/main.js",
                   "/static/manifest.json">>

BYPASS_PREFIXES == {"/admin/", "/cart/", "/orders/", "/accounts/", "/telegram/"}

STATIC_PREFIX == "/static/"

\* the HTML offline notice (its Russian text is abridged here)
OFFLINE_HTML == "<html><body><h1>offline</h1><p>check connection</p></body></html>"

OFFLINE_TEXT == "Offline"

HTML_CTYPE == "text/html; charset=utf-8"

\* content type the host gives a Response built from a string with no headers
TEXT_CTYPE == "text/plain;charset=UTF-8"

None == "none"

\* headers.get() of a header that is not present
NoHeader == "<absent>"

(***************************************************************************)
(* Strings                                                                 *)
(***************************************************************************)
\* String.prototype.startsWith
StartsWith(s, p) == Len(s) >= Len(p) /\ SubSeq(s, 1, Len(p)) = p

\* String.prototype.includes
Includes(s, p) ==
    \E i \in 1..(Len(s) - Len(p) + 1) : SubSeq(s, i, i + Len(p) - 1) = p

SeqRange(s) == {s[i] : i \in 1..Len(s)}

(***************************************************************************)
(* Requests and responses                                                  *)
(***************************************************************************)
\* response.ok
Ok(resp) == resp.status >= 200 /\ resp.status <= 299

NetResp(st, b) == [status |-> st, body |-> b, ctype |-> "served"]

\* content versions the server may serve
Bodies == {"a", "b"}

\* a fetch that rejects (transport failure): no response at all
NetworkError == [status |-> 0, body |-> "", ctype |-> "network-error"]

NoResp == [status |-> 0, body |-> "", ctype |-> ""]

\* what a network fetch may resolve with
NetResponses == {NetResp(200, b) : b \in Bodies} \cup {NetResp(404, "nf")}

Req(m, p, q, a) == [method |-> m, path |-> p, query |-> q, accept |-> a]

ACCEPT_HTML == "text/html,application/xhtml+xml"

ACCEPT_JSON == "application/json"

\* request.url without the origin
Url(r) == r.path \o r.query

\* the requests the pages of the site issue
Requests ==
    { Req("POST", "/cart/add/1/", "", NoHeader),
      Req("POST", "/menu/favorite/toggle/1/", "", NoHeader),
      Req("POST", "/static/js/main.js", "", NoHeader),
      Req("GET", "/admin/", "", ACCEPT_HTML),
      Req("GET", "/cart/", "", ACCEPT_HTML),
      Req("GET", "/orders/1/", "", ACCEPT_HTML),
      Req("GET", "/accounts/login/", "", ACCEPT_HTML),
      Req("GET", "/telegram/webhook/", "", ACCEPT_JSON),
      Req("GET", "/cart", "", ACCEPT_HTML),
      Req("GET", "/static/js/main.js", "", NoHeader),
      Req("GET", "/static/img/logo.png", "", NoHeader),
      Req("GET", "/menu/", "", ACCEPT_HTML),
      Req("GET", "/menu/", "?page=2", ACCEPT_HTML),
      Req("GET", "/menu/item/42/", "", ACCEPT_HTML),
      Req("GET", "/menu/item/42/", "", ACCEPT_JSON),
      Req("GET", "/menu/item/42/", "", NoHeader) }

\* request.headers.get('accept')?.includes('text/html')
AcceptsHtml(r) == r.accept # NoHeader /\ Includes(r.accept, "text/html")

\* mutant: the bypass list lacks the messaging prefix
IsBypass_Missing(path) ==
    \E p \in BYPASS_PREFIXES \ {"/telegram/"} : StartsWith(path, p)

\* the bypass test of the fetch listener
IsBypass(path) == \E p \in BYPASS_PREFIXES : StartsWith(path, p)

\* mutant: the method filter is missing
Route_NoMethodFilter(r) ==
    IF IsBypass(r.path) THEN "pass"
    ELSE IF StartsWith(r.path, STATIC_PREFIX) THEN "static"
    ELSE "page"

\* the route the fetch listener takes: "pass" (returns without respondWith),
\* "static" (cache first) or "page" (network first)
Route(r) ==
    IF r.method # "GET" THEN "pass"
    ELSE IF IsBypass(r.path) THEN "pass"
    ELSE IF StartsWith(r.path, STATIC_PREFIX) THEN "static"
    ELSE "page"

(***************************************************************************)
(* CacheStorage                                                            *)
(***************************************************************************)
OLD_NAME == "suwi-v0"

BARE_NAME == "suwi-"

FOREIGN_NAME == "app-suwi-v0"

StoreNames == {CACHE_NAME, OLD_NAME, BARE_NAME, FOREIGN_NAME}

OldResp == NetResp(200, "old")

Entry(u, resp) == [url |-> u, resp |-> resp]

\* what the stores left by earlier code hold before this version installs
InitEntries ==
    [n \in StoreNames |->
        CASE n = OLD_NAME -> {Entry("/menu/", OldResp),
                              Entry("/static/img/logo.png", OldResp)}
          [] n = FOREIGN_NAME -> {Entry("/menu/item/42/", OldResp)}
          [] OTHER -> {}]

\* the stores that may exist before this version installs, in creation order
InitNameLists ==
    { <<>>, <<OLD_NAME>>, <<FOREIGN_NAME>>,
      <<OLD_NAME, BARE_NAME, FOREIGN_NAME>> }

\* caches.open(name): the store is created when it does not exist
CachesOpen(names, name) ==
    IF name \in SeqRange(names) THEN names ELSE Append(names, name)

\* cache.put(request, response): the entries matching the request are
\* replaced by the new one
CachePut(entries, u, resp) ==
    {x \in entries : x.url # u} \cup {Entry(u, resp)}

\* caches.delete(name)
CachesDelete(names, name) == SelectSeq(names, LAMBDA n : n # name)

\* caches.match(request): the first store, in creation order, that holds an
\* entry for the request's URL answers
CachesMatch(names, entries, u) ==
    LET hits == {i \in 1..Len(names) : \E x \in entries[names[i]] : x.url = u}
    IN  IF hits = {} THEN [hit |-> FALSE, resp |-> None, store |-> None]
        ELSE LET i == CHOOSE j \in hits : \A k \in hits : j <= k
                 x == CHOOSE y \in entries[names[i]] : y.url = u
             IN  [hit |-> TRUE, resp |-> x.resp, store |-> names[i]]

\* mutant: the filter tests for the prefix anywhere in the name
IsStale_Includes(name) == Includes(name, CACHE_PREFIX) /\ name # CACHE_NAME

\* the filter of the activate listener
IsStale(name) == StartsWith(name, CACHE_PREFIX) /\ name # CACHE_NAME

(***************************************************************************)
(* Lifecycle: install and activate                                         *)
(***************************************************************************)
\* the install listener: waitUntil(caches.open(..).then(addAll)), skipWaiting()
InstallEvent ==
    /\ swState = "parsed"
    /\ swState' = "installing"
    /\ ipc' = "open"
    /\ skipWaiting' = TRUE
    /\ UNCHANGED <<cacheNames, cacheEntries, apc, claimed, delPending, delDone,
                   delFailed, atActivate, ev, nDispatched,
                   batch, notif>>

\* caches.open(CACHE_NAME) resolves
InstallOpen ==
    /\ ipc = "open"
    /\ cacheNames' = CachesOpen(cacheNames, CACHE_NAME)
    /\ ipc' = "addAll"
    /\ UNCHANGED <<cacheEntries, swState, apc, skipWaiting, claimed, delPending,
                   delDone, delFailed, atActivate, ev, nDispatched,
                   batch, notif>>

\* mutant: the batch is stored whenever no fetch rejected, whatever the status
AddAll_NoOkCheck(entries, outcome) ==
    IF \A i \in 1..Len(STATIC_ASSETS) : outcome[i] # NetworkError
    THEN [ok |-> TRUE,
          entries |-> {x \in entries : x.url \notin SeqRange(STATIC_ASSETS)}
                      \cup {Entry(STATIC_ASSETS[i], outcome[i]) :
                               i \in 1..Len(STATIC_ASSETS)}]
    ELSE [ok |-> FALSE, entries |-> entries]

\* mutant: the assets are added one by one, each ok response stored at once
AddAll_Partial(entries, outcome) ==
    [ok |-> \A i \in 1..Len(STATIC_ASSETS) :
               outcome[i] # NetworkError /\ Ok(outcome[i]),
     entries |-> {x \in entries :
                    \A i \in 1..Len(STATIC_ASSETS) :
                       x.url = STATIC_ASSETS[i] =>
                          outcome[i] = NetworkError \/ ~Ok(outcome[i])}
                 \cup {Entry(STATIC_ASSETS[i], outcome[i]) :
                          i \in {j \in 1..Len(STATIC_ASSETS) :
                                    outcome[j] # NetworkError /\ Ok(outcome[j])}}]

\* cache.addAll(STATIC_ASSETS): every asset is fetched; the batch is stored
\* only when every fetch resolved with an ok response
AddAll(entries, outcome) ==
    IF \A i \in 1..Len(STATIC_ASSETS) :
           outcome[i] # NetworkError /\ Ok(outcome[i])
    THEN [ok |-> TRUE,
          entries |-> {x \in entries : x.url \notin SeqRange(STATIC_ASSETS)}
                      \cup {Entry(STATIC_ASSETS[i], outcome[i]) :
                               i \in 1..Len(STATIC_ASSETS)}]
    ELSE [ok |-> FALSE, entries |-> entries]

\* the content version the server serves while the worker installs
InstallBody == "a"

\* the outcomes of the batch's fetches: each fetch resolves with the
\* installed content version, resolves with 404, or rejects
InstallOutcomes ==
    {[i \in 1..Len(STATIC_ASSETS) |->
         IF i \in bad THEN o ELSE NetResp(200, InstallBody)] :
       bad \in SUBSET (1..Len(STATIC_ASSETS)),
       o \in {NetResp(404, "nf"), NetworkError}}

InstallAddAll ==
    /\ ipc = "addAll"
    /\ \E outcome \in InstallOutcomes :
         LET r == AddAll(cacheEntries[CACHE_NAME], outcome)
         IN  /\ cacheEntries' = [cacheEntries EXCEPT ![CACHE_NAME] = r.entries]
             /\ ipc' = IF r.ok THEN "resolved" ELSE "rejected"
             /\ batch' = outcome
    /\ UNCHANGED <<cacheNames, swState, apc, skipWaiting, claimed, delPending,
                   delDone, delFailed, atActivate, ev, nDispatched, notif>>

\* mutant: the batch's promise is not given to waitUntil, the install
\* succeeds whatever becomes of the batch
InstallSettle_NoWait ==
    /\ swState = "installing"
    /\ ipc \in {"resolved", "rejected"}
    /\ swState' = "installed"
    /\ UNCHANGED <<cacheNames, cacheEntries, ipc, apc, skipWaiting, claimed,
                   delPending, delDone, delFailed, atActivate, ev, nDispatched,
                   batch, notif>>

\* the host settles the install: installed, or redundant when waitUntil's
\* promise rejected
InstallSettle ==
    /\ swState = "installing"
    /\ ipc \in {"resolved", "rejected"}
    /\ swState' = IF ipc = "resolved" THEN "installed" ELSE "redundant"
    /\ UNCHANGED <<cacheNames, cacheEntries, ipc, apc, skipWaiting, claimed,
                   delPending, delDone, delFailed, atActivate, ev, nDispatched,
                   batch, notif>>

\* the activate listener: waitUntil(caches.keys().then(..)), clients.claim()
ActivateEvent ==
    /\ swState = "installed"
    /\ skipWaiting
    /\ swState' = "activating"
    /\ apc' = "keys"
    /\ claimed' = TRUE
    /\ atActivate' = [names |-> cacheNames, entries |-> cacheEntries]
    /\ UNCHANGED <<cacheNames, cacheEntries, ipc, skipWaiting, delPending,
                   delDone, delFailed, ev, nDispatched,
                   batch, notif>>

\* caches.keys() resolves: caches.delete is called for every name that
\* passes the filter
ActivateKeys ==
    /\ apc = "keys"
    /\ delPending' = {n \in SeqRange(cacheNames) : IsStale(n)}
    /\ apc' = "deleting"
    /\ UNCHANGED <<cacheNames, cacheEntries, swState, ipc, skipWaiting, claimed,
                   delDone, delFailed, atActivate, ev, nDispatched,
                   batch, notif>>

\* mutant: the deletions are chained, a rejected one ends the chain
ActivateDelete_Chained(n) ==
    /\ n \in delPending
    /\ delFailed = {}
    /\ cacheNames' = CachesDelete(cacheNames, n)
    /\ cacheEntries' = [cacheEntries EXCEPT ![n] = {}]
    /\ delPending' = delPending \ {n}
    /\ delDone' = delDone \cup {n}
    /\ ev' = [e \in Events |->
                IF ev[e].w = "put" /\ ev[e].cacheName = n
                THEN [ev[e] EXCEPT !.w = "unlinked"]
                ELSE ev[e]]
    /\ UNCHANGED <<swState, ipc, apc, skipWaiting, claimed, delFailed,
                   atActivate, nDispatched, batch, notif>>

\* one caches.delete(name) resolves; a Cache object a detached write already
\* holds on that store stays usable but is no longer reachable by name
ActivateDelete(n) ==
    /\ n \in delPending
    /\ cacheNames' = CachesDelete(cacheNames, n)
    /\ cacheEntries' = [cacheEntries EXCEPT ![n] = {}]
    /\ delPending' = delPending \ {n}
    /\ delDone' = delDone \cup {n}
    /\ ev' = [e \in Events |->
                IF ev[e].w = "put" /\ ev[e].cacheName = n
                THEN [ev[e] EXCEPT !.w = "unlinked"]
                ELSE ev[e]]
    /\ UNCHANGED <<swState, ipc, apc, skipWaiting, claimed, delFailed,
                   atActivate, nDispatched, batch, notif>>

\* one caches.delete(name) rejects
ActivateDeleteFail(n) ==
    /\ n \in delPending
    /\ delPending' = delPending \ {n}
    /\ delFailed' = delFailed \cup {n}
    /\ UNCHANGED <<cacheNames, cacheEntries, swState, ipc, apc, skipWaiting,
                   claimed, delDone, atActivate, ev, nDispatched,
                   batch, notif>>

\* Promise.all settles: resolved when every deletion resolved, rejected as
\* soon as one rejected
ActivatePromise ==
    /\ apc = "deleting"
    /\ \/ delFailed # {} /\ apc' = "rejected"
       \/ delFailed = {} /\ delPending = {} /\ apc' = "resolved"
    /\ UNCHANGED <<cacheNames, cacheEntries, swState, ipc, skipWaiting, claimed,
                   delPending, delDone, delFailed, atActivate, ev, nDispatched,
                   batch, notif>>

\* the host ends the activation once waitUntil's promise settled, whichever
\* way
ActivateSettle ==
    /\ swState = "activating"
    /\ apc \in {"resolved", "rejected"}
    /\ swState' = "activated"
    /\ UNCHANGED <<cacheNames, cacheEntries, ipc, apc, skipWaiting, claimed,
                   delPending, delDone, delFailed, atActivate, ev, nDispatched,
                   batch, notif>>

(***************************************************************************)
(* Fetch events                                                            *)
(***************************************************************************)
NoReq == Req("", "", "", NoHeader)

Result(k, resp, store) == [kind |-> k, resp |-> resp, store |-> store]

NoResult == Result("none", NoResp, None)

\* an event that was not delivered yet
IdleEvent ==
    [req |-> NoReq, pc |-> "idle", intercepted |-> FALSE, ops |-> <<>>,
     net |-> NoResp, result |-> NoResult, w |-> "none", prior |-> {},
     cacheName |-> None]

\* the events that were answered (or let through) so far
Settled == {e \in Events : ev[e].pc \in {"done", "pass"}}

\* mutant: the detached writes open the store named by the bare prefix
WriteTarget_Prefix == CACHE_PREFIX

\* the store the detached writes of the fetch listener open
WriteTarget == CACHE_NAME

\* if (response.ok) of the static strategy
StaticCaches(resp) == Ok(resp)

\* mutant: the write is keyed by the path, the query dropped
PutKey_PathOnly(r) == r.path

\* the key of the detached write: cache.put(event.request, ..)
PutKey(r) == Url(r)

\* mutant: the page strategy caches every response
PageCaches_Always(resp) == TRUE

\* if (response.ok) of the page strategy
PageCaches(resp) == Ok(resp)

\* mutant: the two offline bodies are swapped
OfflineResponse_Swapped(r) ==
    IF AcceptsHtml(r)
    THEN [status |-> 503, body |-> OFFLINE_TEXT, ctype |-> TEXT_CTYPE]
    ELSE [status |-> 503, body |-> OFFLINE_HTML, ctype |-> HTML_CTYPE]

\* the response the page strategy builds when neither the network nor the
\* cache answers
OfflineResponse(r) ==
    IF AcceptsHtml(r)
    THEN [status |-> 503, body |-> OFFLINE_HTML, ctype |-> HTML_CTYPE]
    ELSE [status |-> 503, body |-> OFFLINE_TEXT, ctype |-> TEXT_CTYPE]

\* mutant: the page strategy looks the request up before it fetches
Listener_PageCacheFirst(r) ==
    CASE Route(r) = "pass" ->
           [pc |-> "pass", intercepted |-> FALSE, ops |-> <<>>]
      [] Route(r) = "static" ->
           [pc |-> "s_match", intercepted |-> TRUE,
            ops |-> <<"caches.match", "respondWith">>]
      [] Route(r) = "page" ->
           [pc |-> "p_match", intercepted |-> TRUE,
            ops |-> <<"caches.match", "respondWith">>]

\* the synchronous part of the fetch listener
Listener(r) ==
    CASE Route(r) = "pass" ->
           [pc |-> "pass", intercepted |-> FALSE, ops |-> <<>>]
      [] Route(r) = "static" ->
           [pc |-> "s_match", intercepted |-> TRUE,
            ops |-> <<"caches.match", "respondWith">>]
      [] Route(r) = "page" ->
           [pc |-> "p_fetch", intercepted |-> TRUE,
            ops |-> <<"fetch", "respondWith">>]

\* the host delivers a fetch event to the active worker
FetchEvent(r) ==
    /\ swState = "activated"
    /\ nDispatched < MaxEvents
    /\ LET e == nDispatched + 1
           l == Listener(r)
       IN  ev' = [ev EXCEPT ![e] =
                    [IdleEvent EXCEPT !.req = r, !.pc = l.pc,
                                      !.intercepted = l.intercepted,
                                      !.ops = l.ops, !.prior = Settled,
                                      !.cacheName = WriteTarget]]
    /\ nDispatched' = nDispatched + 1
    /\ UNCHANGED <<cacheNames, cacheEntries>>
    /\ UNCHANGED <<lifecycleVars, notif>>

\* mutant: the static strategy goes to the network whatever the lookup found
StaticLookup_NetworkFirst(e, m) ==
    [e EXCEPT !.pc = "s_fetch", !.ops = Append(@, "fetch")]

\* static strategy: caches.match resolves; a hit is the answer, a miss
\* issues the network fetch
StaticLookup(e, m) ==
    IF m.hit
    THEN [e EXCEPT !.pc = "done", !.result = Result("cached", m.resp, m.store)]
    ELSE [e EXCEPT !.pc = "s_fetch", !.ops = Append(@, "fetch")]

StaticMatch(e) ==
    /\ ev[e].pc = "s_match"
    /\ ev' = [ev EXCEPT ![e] =
                StaticLookup(ev[e],
                    CachesMatch(cacheNames, cacheEntries, Url(ev[e].req)))]
    /\ UNCHANGED <<cacheNames, cacheEntries, nDispatched>>
    /\ UNCHANGED <<lifecycleVars, notif>>

\* the then-handler of fetch, both strategies: an ok response is cloned and
\* a detached write is started; the response is the answer
OnResponse(e, resp, caches) ==
    IF caches
    THEN [e EXCEPT !.pc = "done", !.net = resp,
                   !.result = Result("net", resp, None),
                   !.w = "open", !.ops = Append(@, "caches.open")]
    ELSE [e EXCEPT !.pc = "done", !.net = resp,
                   !.result = Result("net", resp, None)]

\* static strategy: the network fetch resolves
StaticNetResolve(e, resp) ==
    /\ ev[e].pc = "s_fetch"
    /\ ev' = [ev EXCEPT ![e] = OnResponse(ev[e], resp, StaticCaches(resp))]
    /\ UNCHANGED <<cacheNames, cacheEntries, nDispatched>>
    /\ UNCHANGED <<lifecycleVars, notif>>

\* mutant: the static strategy answers a rejected fetch with the offline text
StaticOnReject_Fallback(e) ==
    [e EXCEPT !.pc = "done", !.net = NetworkError,
              !.result = Result("synth", OfflineResponse(e.req), None)]

\* static strategy: the network fetch rejects; nothing catches it, so the
\* promise given to respondWith rejects
StaticOnReject(e) ==
    [e EXCEPT !.pc = "done", !.net = NetworkError,
              !.result = Result("error", NetworkError, None)]

StaticNetReject(e) ==
    /\ ev[e].pc = "s_fetch"
    /\ ev' = [ev EXCEPT ![e] = StaticOnReject(ev[e])]
    /\ UNCHANGED <<cacheNames, cacheEntries, nDispatched>>
    /\ UNCHANGED <<lifecycleVars, notif>>

\* page strategy: the network fetch resolves
PageNetResolve(e, resp) ==
    /\ ev[e].pc = "p_fetch"
    /\ ev' = [ev EXCEPT ![e] = OnResponse(ev[e], resp, PageCaches(resp))]
    /\ UNCHANGED <<cacheNames, cacheEntries, nDispatched>>
    /\ UNCHANGED <<lifecycleVars, notif>>

\* page strategy: the network fetch rejects; the catch-handler looks the
\* request up
PageNetReject(e) ==
    /\ ev[e].pc = "p_fetch"
    /\ ev' = [ev EXCEPT ![e] =
                [@ EXCEPT !.pc = "p_match", !.net = NetworkError,
                          !.ops = Append(@, "caches.match")]]
    /\ UNCHANGED <<cacheNames, cacheEntries, nDispatched>>
    /\ UNCHANGED <<lifecycleVars, notif>>

\* mutant: a miss in the catch-handler returns nothing, respondWith fails
PageFallback_NoSynth(e, m) ==
    IF m.hit
    THEN [e EXCEPT !.pc = "done", !.result = Result("cached", m.resp, m.store)]
    ELSE [e EXCEPT !.pc = "done",
                   !.result = Result("error", NetworkError, None)]

\* mutant: a page served from the cache is written back to the store
PageFallback_Rewrite(e, m) ==
    IF m.hit
    THEN [e EXCEPT !.pc = "done", !.result = Result("cached", m.resp, m.store),
                   !.net = m.resp, !.w = "open",
                   !.ops = Append(@, "caches.open")]
    ELSE [e EXCEPT !.pc = "done",
                   !.result = Result("synth", OfflineResponse(e.req), None)]

\* page strategy: caches.match of the catch-handler resolves
PageFallback(e, m) ==
    IF m.hit
    THEN [e EXCEPT !.pc = "done", !.result = Result("cached", m.resp, m.store)]
    ELSE [e EXCEPT !.pc = "done",
                   !.result = Result("synth", OfflineResponse(e.req), None)]

PageMatch(e) ==
    /\ ev[e].pc = "p_match"
    /\ ev' = [ev EXCEPT ![e] =
                PageFallback(ev[e],
                    CachesMatch(cacheNames, cacheEntries, Url(ev[e].req)))]
    /\ UNCHANGED <<cacheNames, cacheEntries, nDispatched>>
    /\ UNCHANGED <<lifecycleVars, notif>>

\* detached write: caches.open(CACHE_NAME) resolves and cache.put is called;
\* CACHE_NAME is the one of the worker version that handles the event
WriteOpen(e) ==
    /\ ev[e].w = "open"
    /\ cacheNames' = CachesOpen(cacheNames, ev[e].cacheName)
    /\ ev' = [ev EXCEPT ![e] =
                [@ EXCEPT !.w = "put", !.ops = Append(@, "cache.put")]]
    /\ UNCHANGED <<cacheEntries, nDispatched>>
    /\ UNCHANGED <<lifecycleVars, notif>>

\* detached write: cache.put resolves, the entry is stored
WritePut(e) ==
    /\ ev[e].w = "put"
    /\ cacheEntries' = [cacheEntries EXCEPT ![ev[e].cacheName] =
                          CachePut(@, PutKey(ev[e].req), ev[e].net)]
    /\ ev' = [ev EXCEPT ![e] = [@ EXCEPT !.w = "stored"]]
    /\ UNCHANGED <<cacheNames, nDispatched>>
    /\ UNCHANGED <<lifecycleVars, notif>>

\* detached write: cache.put rejects (the quota is exceeded); nobody waits
\* for the promise, the failure is lost
WritePutFail(e) ==
    /\ ev[e].w = "put"
    /\ ev' = [ev EXCEPT ![e] = [@ EXCEPT !.w = "failed"]]
    /\ UNCHANGED <<cacheNames, cacheEntries, nDispatched>>
    /\ UNCHANGED <<lifecycleVars, notif>>

(***************************************************************************)
(* The version being replaced                                              *)
(***************************************************************************)
\* the worker version this one replaces is the same script with
\* CACHE_VERSION 'v0': it controls the pages, and gets their fetch events,
\* from its own activation until this version becomes the active worker
OldServing ==
    /\ OLD_NAME \in SeqRange(cacheNames)
    /\ swState \in {"parsed", "installing", "installed", "redundant"}

\* the requests the pages issue while the old version controls them: one
\* that is let through, one static asset and two pages
OldRequests ==
    { Req("POST", "/cart/add/1/", "", NoHeader),
      Req("GET", "/static/img/logo.png", "", NoHeader),
      Req("GET", "/menu/", "", ACCEPT_HTML),
      Req("GET", "/menu/item/42/", "", ACCEPT_HTML) }

\* the host delivers a fetch event to the old version
OldFetchEvent(r) ==
    /\ OldServing
    /\ nDispatched < MaxEvents
    /\ LET e == nDispatched + 1
           l == Listener(r)
       IN  ev' = [ev EXCEPT ![e] =
                    [IdleEvent EXCEPT !.req = r, !.pc = l.pc,
                                      !.intercepted = l.intercepted,
                                      !.ops = l.ops, !.prior = Settled,
                                      !.cacheName = OLD_NAME]]
    /\ nDispatched' = nDispatched + 1
    /\ UNCHANGED <<cacheNames, cacheEntries>>
    /\ UNCHANGED <<lifecycleVars, notif>>

\* detached write: cache.put resolves on a Cache object whose store was
\* deleted in the meantime; the entry is reachable by nobody
WritePutUnlinked(e) ==
    /\ ev[e].w = "unlinked"
    /\ ev' = [ev EXCEPT ![e] = [@ EXCEPT !.w = "lost"]]
    /\ UNCHANGED <<cacheNames, cacheEntries, nDispatched>>
    /\ UNCHANGED <<lifecycleVars, notif>>

(***************************************************************************)
(* Notifications                                                           *)
(***************************************************************************)
\* number of window clients clients.matchAll may report
MaxClients == 2

ORIGIN == "https://suwi.example"

\* a property that is not there
Undefined == "<undefined>"

\* notification.data: null, or an object with or without a url
NoData == [present |-> FALSE, url |-> Undefined]

Data(u) == [present |-> TRUE, url |-> u]

\* client.url is always absolute
ClientUrls == {ORIGIN \o "/", ORIGIN \o "/menu/", ORIGIN \o "/menu/?page=2"}

\* a WindowClient: it has a focus method
WindowClient(u) == [url |-> u, focus |-> TRUE]

\* what clients.matchAll({ type: 'window' }) may resolve with
ClientLists ==
    UNION {[1..n -> {WindowClient(u) : u \in ClientUrls}] : n \in 0..MaxClients}

\* the url field of the push payloads the server may send
PushUrls == {Undefined, "", "/", "/menu/", ORIGIN \o "/menu/"}

\* data.url || '/' of the push listener
PushData(u) == Data(IF u \in {Undefined, ""} THEN "/" ELSE u)

\* event.notification.data?.url || '/'
TargetUrl(d) ==
    IF ~d.present \/ d.url \in {Undefined, ""} THEN "/" ELSE d.url

Act(op, u, c) == [op |-> op, url |-> u, client |-> c]

NoClick ==
    [pc |-> "idle", data |-> NoData, clients |-> <<>>, canOpen |-> FALSE,
     acts |-> <<>>]

\* the push listener shows a notification
PushEvent(u) ==
    /\ notif.pc = "idle"
    /\ notif' = [notif EXCEPT !.pc = "shown", !.data = PushData(u)]
    /\ UNCHANGED <<cacheNames, cacheEntries, ev, nDispatched>>
    /\ UNCHANGED lifecycleVars

\* a notification of the registration that the push listener did not build
OtherNotification(d) ==
    /\ notif.pc = "idle"
    /\ notif' = [notif EXCEPT !.pc = "shown", !.data = d]
    /\ UNCHANGED <<cacheNames, cacheEntries, ev, nDispatched>>
    /\ UNCHANGED lifecycleVars

\* the synchronous part of the notificationclick listener
NotificationClick ==
    /\ notif.pc = "shown"
    /\ notif' = [notif EXCEPT !.pc = "matchAll",
                              !.acts = <<Act("close", "", 0)>>]
    /\ UNCHANGED <<cacheNames, cacheEntries, ev, nDispatched>>
    /\ UNCHANGED lifecycleVars

\* the clients the loop of the then-handler stops at
Matching(cl, u) == {i \in 1..Len(cl) : cl[i].url = u /\ cl[i].focus}

\* mutant: the loop lacks its return: every matching client is focused and
\* the handler goes on to open a window
OnClients_NoReturn(cl, canOpen, u) ==
    [i \in 1..Cardinality(Matching(cl, u)) |->
        Act("focus", u, CHOOSE k \in Matching(cl, u) :
                           Cardinality({j \in Matching(cl, u) : j <= k}) = i)]
    \o (IF canOpen THEN <<Act("openWindow", u, 0)>> ELSE <<>>)

\* the then-handler of clients.matchAll: the first client whose url is the
\* target is focused; with none, a window is opened when the host can
OnClients(cl, canOpen, u) ==
    IF Matching(cl, u) # {}
    THEN <<Act("focus", u, CHOOSE i \in Matching(cl, u) :
                              \A j \in Matching(cl, u) : i <= j)>>
    ELSE IF canOpen THEN <<Act("openWindow", u, 0)>>
    ELSE <<>>

\* clients.matchAll resolves
MatchAllResolve(cl, canOpen) ==
    /\ notif.pc = "matchAll"
    /\ notif' = [notif EXCEPT !.pc = "done", !.clients = cl,
                              !.canOpen = canOpen,
                              !.acts = @ \o OnClients(cl, canOpen,
                                                      TargetUrl(notif.data))]
    /\ UNCHANGED <<cacheNames, cacheEntries, ev, nDispatched>>
    /\ UNCHANGED lifecycleVars

(***************************************************************************)
(* Specification                                                           *)
(***************************************************************************)
Init ==
    /\ cacheNames \in InitNameLists
    /\ cacheEntries = [n \in StoreNames |->
                         IF n \in SeqRange(cacheNames) THEN InitEntries[n] ELSE {}]
    /\ swState = "parsed"
    /\ ipc = "idle"
    /\ apc = "idle"
    /\ skipWaiting = FALSE
    /\ claimed = FALSE
    /\ delPending = {}
    /\ delDone = {}
    /\ delFailed = {}
    /\ atActivate = [names |-> <<>>, entries |-> [n \in StoreNames |-> {}]]
    /\ ev = [e \in Events |-> IdleEvent]
    /\ nDispatched = 0
    /\ batch = <<>>
    /\ notif = NoClick

Lifecycle ==
    \/ InstallEvent
    \/ InstallOpen
    \/ InstallAddAll
    \/ InstallSettle
    \/ ActivateEvent
    \/ ActivateKeys
    \/ \E n \in StoreNames : ActivateDelete(n)
    \/ \E n \in StoreNames : ActivateDeleteFail(n)
    \/ ActivatePromise
    \/ ActivateSettle

Handlers ==
    \/ \E e \in Events : StaticMatch(e)
    \/ \E e \in Events, resp \in NetResponses : StaticNetResolve(e, resp)
    \/ \E e \in Events : StaticNetReject(e)
    \/ \E e \in Events, resp \in NetResponses : PageNetResolve(e, resp)
    \/ \E e \in Events : PageNetReject(e)
    \/ \E e \in Events : PageMatch(e)
    \/ \E e \in Events : WriteOpen(e)
    \/ \E e \in Events : WritePut(e)
    \/ \E e \in Events : WritePutFail(e)

Next ==
    \/ Lifecycle
    \/ \E r \in Requests : FetchEvent(r)
    \/ Handlers

Spec == Init /\ [][Next]_vars

\* one step of the promise chain of event e: the host settles whatever the
\* chain waits for (a cache lookup, the network fetch)
Step(e) ==
    \/ StaticMatch(e)
    \/ \E resp \in NetResponses : StaticNetResolve(e, resp)
    \/ StaticNetReject(e)
    \/ \E resp \in NetResponses : PageNetResolve(e, resp)
    \/ PageNetReject(e)
    \/ PageMatch(e)

\* every pending lookup and every pending network fetch settles eventually
FairSpec == Spec /\ \A e \in Events : WF_vars(Step(e))

\* the worker replaces an older version that still serves the pages
UpgradeNext ==
    \/ Next
    \/ \E r \in OldRequests : OldFetchEvent(r)
    \/ \E e \in Events : WritePutUnlinked(e)

UpgradeSpec == Init /\ [][UpgradeNext]_vars

\* the active worker, all of its install batch cached
NotifInit ==
    /\ cacheNames = <<CACHE_NAME>>
    /\ cacheEntries = [n \in StoreNames |->
                         IF n = CACHE_NAME
                         THEN {Entry(STATIC_ASSETS[i], NetResp(200, InstallBody)) :
                                  i \in 1..Len(STATIC_ASSETS)}
                         ELSE {}]
    /\ swState = "activated"
    /\ ipc = "resolved"
    /\ apc = "resolved"
    /\ skipWaiting = TRUE
    /\ claimed = TRUE
    /\ delPending = {}
    /\ delDone = {}
    /\ delFailed = {}
    /\ atActivate = [names |-> cacheNames, entries |-> cacheEntries]
    /\ ev = [e \in Events |-> IdleEvent]
    /\ nDispatched = 0
    /\ batch = [i \in 1..Len(STATIC_ASSETS) |-> NetResp(200, InstallBody)]
    /\ notif = NoClick

NotifNext ==
    \/ \E u \in PushUrls : PushEvent(u)
    \/ \E d \in {NoData, Data(Undefined)} : OtherNotification(d)
    \/ NotificationClick
    \/ \E cl \in ClientLists, canOpen \in BOOLEAN : MatchAllResolve(cl, canOpen)

NotifSpec == NotifInit /\ [][NotifNext]_vars

(***************************************************************************)
(* Properties                                                              *)
(***************************************************************************)
Delivered == {e \in Events : ev[e].pc # "idle"}

Calls(e) == SeqRange(ev[e].ops)

\* the fetch listener left the event alone: no respondWith, no cache
\* lookup, no fetch of its own, no write
Untouched(e) ==
    /\ ev[e].pc = "pass"
    /\ ~ev[e].intercepted
    /\ ev[e].ops = <<>>
    /\ ev[e].w = "none"
    /\ ev[e].result = NoResult

\* C1: a fetch event whose method is not GET is never intercepted, whatever
\* its path: no respondWith, no cache lookup, no network fetch, no write.
C1_NonGetNotIntercepted ==
    \A e \in Delivered : ev[e].req.method # "GET" => Untouched(e)

\* C1 witness: a POST to a path under /static/ and a POST to a page path were
\* both delivered and left alone.
C1_Witness ==
    \E e1, e2 \in Delivered :
        /\ ev[e1].req.method = "POST" /\ StartsWith(ev[e1].req.path, "/static/")
        /\ ev[e2].req.method = "POST" /\ StartsWith(ev[e2].req.path, "/menu/")
        /\ Untouched(e1) /\ Untouched(e2)

\* C2: a GET whose path starts with /admin/, /cart/, /orders/, /accounts/ or
\* /telegram/ is not intercepted: no cache read and no cache write for it.
C2_BypassNotIntercepted ==
    \A e \in Delivered :
        ( /\ ev[e].req.method = "GET"
          /\ \E p \in {"/admin/", "/cart/", "/orders/", "/accounts/", "/telegram/"} :
                 StartsWith(ev[e].req.path, p) )
        => /\ Untouched(e)
           /\ "caches.match" \notin Calls(e)
           /\ "cache.put" \notin Calls(e)

\* C2 witness: GET /telegram/webhook/ and GET /cart/ were delivered and left
\* alone while the stores hold entries.
C2_Witness ==
    \E e1, e2 \in Delivered :
        /\ ev[e1].req = Req("GET", "/telegram/webhook/", "", ACCEPT_JSON)
        /\ ev[e2].req = Req("GET", "/cart/", "", ACCEPT_HTML)
        /\ Untouched(e1) /\ Untouched(e2)
        /\ cacheEntries[CACHE_NAME] # {}

IsPageEvent(e) ==
    /\ e \in Delivered
    /\ ev[e].req.method = "GET"
    /\ ~IsBypass(ev[e].req.path)
    /\ ~StartsWith(ev[e].req.path, STATIC_PREFIX)

IsStaticEvent(e) ==
    /\ e \in Delivered
    /\ ev[e].req.method = "GET"
    /\ ~IsBypass(ev[e].req.path)
    /\ StartsWith(ev[e].req.path, STATIC_PREFIX)

Answered(e) == ev[e].pc = "done" /\ ev[e].result.kind \in {"net", "cached", "synth"}

\* C3: every intercepted page request is eventually answered with a
\* response, never with a failure, whether the network fetch resolves or
\* rejects and whether or not a cached entry exists.
C3_PageAlwaysAnswered ==
    \A e \in Events :
        /\ [](IsPageEvent(e) /\ ev[e].pc = "done" => Answered(e))
        /\ (IsPageEvent(e) ~> Answered(e))

\* C3 witness: a page request whose fetch rejected and that no store held was
\* answered, and another whose fetch resolved was answered.
C3_Witness ==
    \E e1, e2 \in Events :
        /\ IsPageEvent(e1) /\ ev[e1].net = NetworkError
        /\ Answered(e1) /\ ev[e1].result.kind = "synth"
        /\ IsPageEvent(e2) /\ ev[e2].net \in NetResponses /\ Answered(e2)

\* the names of the stores that hold an entry for URL u
Holders(u) == {n \in SeqRange(cacheNames) : \E x \in cacheEntries[n] : x.url = u}

\* the answer the page strategy owes a request whose fetch rejected, read
\* off the stores of the current state
OfflineReference(r, res) ==
    IF Holders(Url(r)) # {}
    THEN /\ res.kind = "cached"
         /\ \E n \in Holders(Url(r)) : Entry(Url(r), res.resp) \in cacheEntries[n]
    ELSE IF r.accept # NoHeader /\ Includes(r.accept, "text/html")
    THEN /\ res.kind = "synth"
         /\ res.resp = [status |-> 503, body |-> OFFLINE_HTML,
                        ctype |-> "text/html; charset=utf-8"]
    ELSE /\ res.kind = "synth"
         /\ res.resp.status = 503
         /\ res.resp.body = "Offline"

\* C4: a page request whose fetch rejected is answered with the cached entry
\* for it if one exists (status as cached), else with the 503 HTML notice
\* when Accept contains text/html, else with a 503 whose body is 'Offline'.
C4_OfflineAnswerIsReference ==
    [][\A e \in Events :
          (ev[e].pc = "p_match" /\ ev'[e].pc # "p_match")
          => /\ ev'[e].pc = "done"
             /\ ev[e].net = NetworkError
             /\ OfflineReference(ev[e].req, ev'[e].result)]_vars

\* C4 witness: one rejected page request was answered from the cache and
\* another, sent without an Accept header, with the 'Offline' text.
C4_Witness ==
    \E e1, e2 \in Events :
        /\ IsPageEvent(e1) /\ ev[e1].net = NetworkError
        /\ ev[e1].result.kind = "cached" /\ Ok(ev[e1].result.resp)
        /\ IsPageEvent(e2) /\ ev[e2].net = NetworkError
        /\ ev[e2].req.accept = NoHeader
        /\ ev[e2].result.kind = "synth"
        /\ ev[e2].result.resp.body = "Offline"

\* e1 is a static-asset request that was answered by an ok network response
\* before the identical request e2 was delivered
PriorSuccess(e1, e2) ==
    /\ e1 # e2
    /\ IsStaticEvent(e1) /\ IsStaticEvent(e2)
    /\ ev[e1].req = ev[e2].req
    /\ e1 \in ev[e2].prior
    /\ ev[e1].result.kind = "net" /\ Ok(ev[e1].net)

\* C5 as stated: after a successful network response for a static asset, a
\* second identical request is served from the cache without a network
\* call, however it interleaves with the first request's detached write.
C5_SecondRequestAlwaysCached ==
    \A e1, e2 \in Events :
        PriorSuccess(e1, e2)
        => /\ "fetch" \notin Calls(e2)
           /\ ev[e2].pc = "done" => ev[e2].result.kind = "cached"

\* the responses that completed detached writes stored under URL u
StoredFor(u) == {ev[e].net : e \in {d \in Events : ev[d].w = "stored" /\ Url(ev[d].req) = u}}

\* C5 amended: a second identical static-asset request whose cache lookup
\* takes place after the first request's detached write has completed (the
\* entry still being in the current store) is answered with the copy in
\* the current store, without a network call.
C5_CachedOnceWritten ==
    [][\A e1, e2 \in Events :
          ( /\ PriorSuccess(e1, e2)
            /\ ev[e1].w = "stored"
            /\ \E x \in cacheEntries[CACHE_NAME] : x.url = Url(ev[e2].req)
            /\ ev[e2].pc = "s_match" /\ ev'[e2].pc # "s_match" )
          => /\ ev'[e2].pc = "done"
             /\ ev'[e2].result.kind = "cached"
             /\ ev'[e2].result.store = CACHE_NAME
             /\ ev'[e2].result.resp \in StoredFor(Url(ev[e2].req))
             /\ "fetch" \notin SeqRange(ev'[e2].ops)]_vars

\* C5 witness: the first request's response was written, and the second
\* request was then answered with that copy and made no network call.
C5_Witness ==
    \E e1, e2 \in Events :
        /\ PriorSuccess(e1, e2)
        /\ ev[e1].w = "stored"
        /\ ev[e2].pc = "done"
        /\ ev[e2].result = Result("cached", ev[e1].net, CACHE_NAME)
        /\ "fetch" \notin Calls(e2)

\* C6: every entry of the current store is a response with an ok status;
\* a non-ok response or a synthesized offline response is never stored.
C6_OnlyOkStored ==
    \A x \in cacheEntries[CACHE_NAME] :
        /\ x.resp.status >= 200 /\ x.resp.status <= 299
        /\ x.resp.body \notin {OFFLINE_HTML, OFFLINE_TEXT}

\* C6 witness: the store holds the install batch and an entry written by a
\* fetch, while another fetch got a non-ok response and an offline answer
\* was synthesized.
C6_Witness ==
    /\ \E e \in Events : ev[e].w = "stored" /\ Url(ev[e].req) \notin SeqRange(STATIC_ASSETS)
    /\ \E e \in Events : ev[e].result.kind \in {"net", "synth"} /\ ~Ok(ev[e].result.resp)
    /\ Cardinality(cacheEntries[CACHE_NAME]) = Len(STATIC_ASSETS) + 1

\* e1 is a page request answered by a non-ok network response, e2 a later
\* request for the same URL whose fetch rejected and that was answered
NotFoundThenOffline(e1, e2) ==
    /\ e1 # e2
    /\ IsPageEvent(e1) /\ IsPageEvent(e2)
    /\ Url(ev[e1].req) = Url(ev[e2].req)
    /\ ev[e1].pc = "done" /\ ev[e1].net \in NetResponses /\ ~Ok(ev[e1].net)
    /\ e1 \in ev[e2].prior
    /\ ev[e2].pc = "done" /\ ev[e2].net = NetworkError

\* the non-ok response went to the requester as it came and started no write
PassedThrough(e) ==
    /\ ev[e].result = Result("net", ev[e].net, None)
    /\ ev[e].w = "none"
    /\ "caches.open" \notin Calls(e) /\ "cache.put" \notin Calls(e)

\* C7 as stated: a non-ok page response is returned as it is and not
\* cached, and a later request for that URL whose fetch rejects gets the
\* synthesized 503, not a cached response.
C7_OfflineAfter404IsSynth ==
    \A e1, e2 \in Events :
        NotFoundThenOffline(e1, e2)
        => /\ PassedThrough(e1)
           /\ ev[e2].result.kind = "synth"

\* e1 is a page request answered by a non-ok network response, e2 a later
\* request for the same URL whose fetch rejected and whose lookup is pending
NotFoundThenLookup(e1, e2) ==
    /\ e1 # e2
    /\ IsPageEvent(e1) /\ IsPageEvent(e2)
    /\ Url(ev[e1].req) = Url(ev[e2].req)
    /\ ev[e1].pc = "done" /\ ev[e1].net \in NetResponses /\ ~Ok(ev[e1].net)
    /\ e1 \in ev[e2].prior
    /\ ev[e2].pc = "p_match"

\* C7 amended: a non-ok page response is returned as it is and not cached;
\* a later request for that URL whose fetch rejects is never answered with
\* that non-ok response: it gets the synthesized 503 when no store holds an
\* entry for the URL, and otherwise the entry that a store holds for it.
C7_404NeverServedFromCache ==
    /\ [](\A e \in Events :
            (IsPageEvent(e) /\ ev[e].pc = "done"
               /\ ev[e].net \in NetResponses /\ ~Ok(ev[e].net))
            => PassedThrough(e))
    /\ [][\A e1, e2 \in Events :
            (NotFoundThenLookup(e1, e2) /\ ev'[e2].pc # "p_match")
            => /\ ev'[e2].pc = "done"
               /\ ev'[e2].result.resp # ev[e1].net
               /\ IF Holders(Url(ev[e2].req)) = {}
                  THEN /\ ev'[e2].result.kind = "synth"
                       /\ ev'[e2].result.resp.status = 503
                  ELSE /\ ev'[e2].result.kind = "cached"
                       /\ \E n \in Holders(Url(ev[e2].req)) :
                            Entry(Url(ev[e2].req), ev'[e2].result.resp)
                               \in cacheEntries[n]]_vars

\* C7 witness: a page got 404, and the later request for it, with the fetch
\* rejected, got the synthesized 503.
C7_Witness ==
    \E e1, e2 \in Events :
        /\ NotFoundThenOffline(e1, e2)
        /\ ev[e1].net.status = 404
        /\ ev[e2].result.kind = "synth"
        /\ ev[e2].result.resp.status = 503

\* C8: a static-asset request that misses the cache and whose fetch rejects
\* fails for the requester: no cached or synthesized response, no write.
C8_StaticFailurePropagates ==
    \A e \in Events :
        (IsStaticEvent(e) /\ ev[e].net = NetworkError)
        => /\ ev[e].pc = "done"
           /\ ev[e].result.kind = "error"
           /\ ev[e].w = "none"
           /\ "caches.open" \notin Calls(e) /\ "cache.put" \notin Calls(e)

\* C8 witness: a static-asset request missed the cache, its fetch rejected,
\* and the requester got the failure.
C8_Witness ==
    \E e \in Events :
        /\ IsStaticEvent(e) /\ ev[e].net = NetworkError
        /\ ev[e].ops = <<"caches.match", "respondWith", "fetch">>
        /\ ev[e].result.kind = "error"

\* the events of the page request r whose detached write has completed
Written(r) == {e \in Events : IsPageEvent(e) /\ ev[e].req = r /\ ev[e].w = "stored"}

\* C9: the same successful page request issued twice leaves, once both
\* writes have completed, exactly one entry for it in the current store,
\* holding one of the responses; a completing write replaces the entry.
C9_OneEntryPerRequest ==
    /\ [](\A r \in Requests :
            Cardinality(Written(r)) >= 2
            => LET S == {x \in cacheEntries[CACHE_NAME] : x.url = Url(r)}
               IN  /\ Cardinality(S) = 1
                   /\ \A x \in S : x.resp \in {ev[e].net : e \in Written(r)})
    /\ [][\A e \in Events :
            (IsPageEvent(e) /\ ev[e].w = "put" /\ ev'[e].w = "stored")
            => {x \in cacheEntries'[CACHE_NAME] : x.url = Url(ev[e].req)}
                 = {Entry(Url(ev[e].req), ev[e].net)}]_vars

\* C9 witness: two requests for the same page got different ok responses,
\* both writes completed, and the store holds one entry for the page.
C9_Witness ==
    \E e1, e2 \in Events :
        /\ e1 # e2
        /\ ev[e1].req = Req("GET", "/menu/", "?page=2", ACCEPT_HTML)
        /\ {e1, e2} \subseteq Written(ev[e1].req)
        /\ ev[e1].net # ev[e2].net
        /\ Cardinality({x \in cacheEntries[CACHE_NAME] : x.url = "/menu/?page=2"}) = 1

\* C10: when activate completes with every deletion succeeded, every store
\* present at activate whose name starts with 'suwi-' and is not 'suwi-v1'
\* is gone, 'suwi-v1' is there with its entries, and every store whose
\* name does not start with 'suwi-' is as it was.
C10_ActivateCleanup ==
    (apc = "resolved" /\ nDispatched = 0)
    => /\ \A n \in SeqRange(atActivate.names) :
            IF StartsWith(n, "suwi-")
            THEN IF n = "suwi-v1"
                 THEN /\ n \in SeqRange(cacheNames)
                      /\ cacheEntries[n] = atActivate.entries[n]
                 ELSE /\ n \notin SeqRange(cacheNames)
                      /\ n \in delDone
            ELSE /\ n \in SeqRange(cacheNames)
                 /\ cacheEntries[n] = atActivate.entries[n]
       /\ "suwi-v1" \in SeqRange(atActivate.names)
       /\ SeqRange(cacheNames) \subseteq SeqRange(atActivate.names)

\* C10 witness: activate ran with two stale stores and a foreign store
\* present and completed; the stale ones are gone, the others remain.
C10_Witness ==
    /\ apc = "resolved"
    /\ swState = "activated"
    /\ atActivate.names = <<OLD_NAME, BARE_NAME, FOREIGN_NAME, CACHE_NAME>>
    /\ cacheNames = <<FOREIGN_NAME, CACHE_NAME>>
    /\ cacheEntries[CACHE_NAME] # {}
    /\ cacheEntries[FOREIGN_NAME] # {}


(***************************************************************************)
(* Install and activation                                                  *)
(***************************************************************************)
\* every fetch of the install batch resolved with an ok response
BatchSucceeded ==
    \A i \in 1..Len(STATIC_ASSETS) : batch[i] # NetworkError /\ Ok(batch[i])

\* the current store holds an entry under the url
Holds(u) == \E x \in cacheEntries[CACHE_NAME] : x.url = u

\* C11: the install batch is all or nothing.  Once cache.addAll settled
\* (and before any fetch event wrote to the store): when every fetch of the
\* Static Asset List succeeded, the install promise resolved and the current
\* store holds, for each of the four paths, the response that was fetched;
\* when any fetch failed, the promise rejected, the host is told so (the
\* worker becomes redundant, never installed) and the store holds no entry
\* of the batch.
C11_InstallAllOrNothing ==
    (ipc \in {"resolved", "rejected"} /\ nDispatched = 0) =>
        /\ BatchSucceeded =>
              /\ ipc = "resolved"
              /\ swState # "redundant"
              /\ \A i \in 1..Len(STATIC_ASSETS) :
                    Entry(STATIC_ASSETS[i], batch[i]) \in cacheEntries[CACHE_NAME]
        /\ ~BatchSucceeded =>
              /\ ipc = "rejected"
              /\ swState \in {"installing", "redundant"}
              /\ \A i \in 1..Len(STATIC_ASSETS) : ~Holds(STATIC_ASSETS[i])

\* an install that failed on one asset only: the three others were fetched
\* and none of them is in the store
C11_Witness ==
    /\ swState = "redundant"
    /\ ipc = "rejected"
    /\ Cardinality({i \in 1..Len(STATIC_ASSETS) :
                      batch[i] # NetworkError /\ Ok(batch[i])}) = 3
    /\ cacheEntries[CACHE_NAME] = {}

\* C12: a failed install goes no further.  Once the install batch failed,
\* this version is installing or redundant and never activating or
\* activated, its activate listener has not run (no caches.keys, no
\* deletion, no clients.claim), every fetch event delivered was delivered to
\* the old version, and the old version can still be given the next one;
\* all that although skipWaiting() was called before the batch settled.
C12_FailedInstallStops ==
    ipc = "rejected" =>
        /\ skipWaiting
        /\ swState \in {"installing", "redundant"}
        /\ apc = "idle"
        /\ ~claimed
        /\ delPending = {} /\ delDone = {} /\ delFailed = {}
        /\ \A e \in Delivered : ev[e].cacheName = OLD_NAME
        /\ (OLD_NAME \in SeqRange(cacheNames) /\ nDispatched < MaxEvents)
              => \A r \in OldRequests : ENABLED OldFetchEvent(r)

\* the install failed with skipWaiting() called, and the old version
\* answered a page from the network and a static asset from its store
C12_Witness ==
    /\ swState = "redundant"
    /\ skipWaiting
    /\ \E e1, e2 \in Events :
          /\ ev[e1].cacheName = OLD_NAME
          /\ ev[e1].result.kind = "net"
          /\ ev[e2].cacheName = OLD_NAME
          /\ ev[e2].result.kind = "cached"
          /\ ev[e2].result.store = OLD_NAME

(***************************************************************************)
(* Version bump                                                            *)
(***************************************************************************)
\* the events this version handled / the old version handled
OwnEvents == {e \in Delivered : ev[e].cacheName = CACHE_NAME}

OldEvents == {e \in Delivered : ev[e].cacheName = OLD_NAME}

\* C13 as stated: round trip through the store of a version.  An object a
\* fetch handler wrote under its version's store name is found there under
\* the exact url (query included) as long as no bumped version was
\* activated; and once the install / activate cycle of the bumped version
\* completed with every deletion succeeded, no cache lookup of the agent
\* returns an object of the old version's store, whatever the key.  (The
\* old version is 'v0', the bumped one 'v1'.)
C13_RoundTrip ==
    /\ \A e \in OwnEvents :
          ev[e].w = "stored" =>
             \E x \in cacheEntries[CACHE_NAME] : x.url = Url(ev[e].req)
    /\ \A e \in OldEvents :
          (ev[e].w = "stored" /\ swState \in {"parsed", "installing", "redundant"})
             => \E x \in cacheEntries[OLD_NAME] : x.url = Url(ev[e].req)
    /\ apc = "resolved" =>
          \A e \in OwnEvents :
             ev[e].result.kind = "cached" => ev[e].result.store # OLD_NAME

(***************************************************************************)
(* Order of the steps of one event                                         *)
(***************************************************************************)
\* call a was issued, and before every call b
Before(ops, a, b) ==
    \E i \in 1..Len(ops) :
       /\ ops[i] = a
       /\ \A j \in 1..Len(ops) : ops[j] = b => i < j

\* C14: order within one intercepted request.  Static strategy: the cache
\* lookup is the first call and precedes any network fetch; the fetch is
\* issued only by the step in which the lookup missed, and an event
\* answered from the cache never fetched.  Page strategy: the network fetch
\* is the first call; the cache lookup is issued only after the fetch
\* rejected; the synthesized answer is given only by the step in which that
\* lookup missed.
C14_StepOrder ==
    /\ [](\A e \in Delivered :
            /\ IsStaticEvent(e) =>
                  /\ ev[e].ops[1] = "caches.match"
                  /\ "fetch" \in Calls(e) =>
                        /\ Before(ev[e].ops, "caches.match", "fetch")
                        /\ ev[e].pc \in {"s_fetch", "done"}
                        /\ ev[e].result.kind # "cached"
                  /\ ev[e].pc = "s_match" => "fetch" \notin Calls(e)
                  /\ ev[e].result.kind = "cached" => "fetch" \notin Calls(e)
            /\ IsPageEvent(e) =>
                  /\ ev[e].ops[1] = "fetch"
                  /\ "caches.match" \in Calls(e) =>
                        /\ Before(ev[e].ops, "fetch", "caches.match")
                        /\ ev[e].net = NetworkError
                  /\ ev[e].pc = "p_fetch" => "caches.match" \notin Calls(e)
                  /\ ev[e].result.kind \in {"cached", "synth"} =>
                        /\ "caches.match" \in Calls(e)
                        /\ ev[e].net = NetworkError)
    /\ [][\A e \in Delivered :
            LET m == CachesMatch(cacheNames, cacheEntries, Url(ev[e].req))
            IN  /\ ("fetch" \notin Calls(e) /\ "fetch" \in SeqRange(ev'[e].ops))
                     => (ev[e].pc = "s_match" /\ ~m.hit)
                /\ (ev[e].result.kind # "synth" /\ ev'[e].result.kind = "synth")
                     => (ev[e].pc = "p_match" /\ ~m.hit)
                /\ ("caches.match" \notin Calls(e)
                      /\ "caches.match" \in SeqRange(ev'[e].ops))
                     => (ev[e].pc = "p_fetch" /\ ev'[e].net = NetworkError)]_vars

\* a static event that looked up, missed and fetched, and a page event that
\* fetched, was rejected, looked up, missed and got the synthesized answer
C14_Witness ==
    \E e1, e2 \in Events :
       /\ IsStaticEvent(e1)
       /\ ev[e1].ops = <<"caches.match", "respondWith", "fetch">>
       /\ ev[e1].result.kind = "net"
       /\ IsPageEvent(e2)
       /\ ev[e2].ops = <<"fetch", "respondWith", "caches.match">>
       /\ ev[e2].result.kind = "synth"

\* the stores the filter of the activate listener selected
StaleAtActivate == {n \in SeqRange(atActivate.names) : IsStale(n)}

\* C15: the deletion at activate is best effort.  Once the deletion of one
\* stale store failed: caches.delete was called for every stale store (each
\* is pending, done or failed), every pending one can still be carried out
\* and every one that resolved removed its store; the worker is activating
\* or activated, the activation can go on, and clients.claim() was called.
C15_DeletionBestEffort ==
    delFailed # {} =>
        /\ StaleAtActivate = delPending \cup delDone \cup delFailed
        /\ \A n \in delPending : ENABLED ActivateDelete(n)
        /\ \A n \in delDone : n \notin SeqRange(cacheNames)
        /\ claimed
        /\ swState \in {"activating", "activated"}
        /\ swState = "activating" => ENABLED (ActivatePromise \/ ActivateSettle)

\* one of two stale stores could not be deleted: the other one is gone and
\* the worker is active and has claimed the clients
C15_Witness ==
    /\ delFailed = {BARE_NAME}
    /\ delDone = {OLD_NAME}
    /\ apc = "rejected"
    /\ swState = "activated"
    /\ claimed
    /\ cacheNames = <<BARE_NAME, FOREIGN_NAME, CACHE_NAME>>

(***************************************************************************)
(* Stores the fetch listener reads and writes                              *)
(***************************************************************************)
\* C16 as stated: every response this version's fetch listener serves from
\* the cache is an entry of the current store 'suwi-v1', never one of a
\* stale 'suwi-' store that is not deleted yet nor of any other store.
C16_ServedFromCurrentStoreOnly ==
    \A e \in OwnEvents :
       ev[e].result.kind = "cached" =>
          /\ ev[e].result.store = "suwi-v1"
          /\ ~IsStale(ev[e].result.store)

(***************************************************************************)
(* Notification click                                                      *)
(***************************************************************************)
\* the target of the click: the url of the notification's data, '/' when
\* the notification has no data or the data no url
ClickTarget ==
    IF notif.data.present /\ notif.data.url # Undefined
    THEN notif.data.url ELSE "/"

\* the window clients whose url is exactly the target
Showing == {i \in 1..Len(notif.clients) : notif.clients[i].url = ClickTarget}

C18_NoStaleStoreAfterActivate ==
    (swState = "activated" /\ apc = "resolved") =>
        \A n \in SeqRange(cacheNames) :
           StartsWith(n, "suwi-") => n = "suwi-v1"

(***************************************************************************)
(* Frame of the fetch listener                                             *)
(***************************************************************************)
\* the event was answered without a successful network response: from the
\* cache, with the synthesized 503, with the rejection of the static fetch,
\* or with a response that is not ok
NoNetSuccess(res) ==
    \/ res.kind \in {"cached", "synth", "error"}
    \/ res.kind = "net" /\ ~Ok(res.resp)

\* C19: a fetch event answered without a successful network response
\* leaves every store as it is.  Such an event (static cache hit, page
\* served from the cache, page answered with the synthesized 503, static
\* request whose fetch rejected, response that is not ok) never starts a
\* detached write, calls neither caches.open nor cache.put, and the step
\* that answers it changes no store name and no entry.
C19_NoWriteWithoutNetSuccess ==
    /\ [](\A e \in Delivered :
            NoNetSuccess(ev[e].result) =>
               /\ ev[e].w = "none"
               /\ Calls(e) \cap {"caches.open", "cache.put", "caches.delete"} = {})
    /\ [][\A e \in Delivered :
            (ev[e].pc # "done" /\ ev'[e].pc = "done"
               /\ NoNetSuccess(ev'[e].result))
            => (cacheNames' = cacheNames /\ cacheEntries' = cacheEntries)]_vars

\* a static asset answered from the cache and a page answered with the
\* synthesized 503, neither with a write
C19_Witness ==
    \E e1, e2 \in Events :
       /\ IsStaticEvent(e1)
       /\ ev[e1].result.kind = "cached"
       /\ ev[e1].w = "none"
       /\ IsPageEvent(e2)
       /\ ev[e2].result.kind = "synth"
       /\ ev[e2].w = "none"

\* the store of the version that handles the event
VersionStore(e) == IF e \in OldEvents THEN "suwi-v0" ELSE "suwi-v1"

\* the entries of a store under the keys other than k
Others(entries, k) == {x \in entries : x.url # k}

\* C20: a cache write of a fetch handler touches the store named by its
\* version's CACHE_NAME and the key of its request only.  The step in which
\* caches.open resolves changes no entry and at most creates that store;
\* the step in which cache.put resolves changes no store name, no other
\* store, and in that store no entry under another key, and puts the
\* response under the request's url; every other step of a fetch event
\* (dispatch, lookup, network outcome, failed put) changes no store at all.
C20_WriteOwnStoreOwnKey ==
    [][\A e \in Events :
         LET k == Url(ev[e].req)
             n == VersionStore(e)
         IN  /\ (ev[e].w = "open" /\ ev'[e].w = "put") =>
                   /\ cacheEntries' = cacheEntries
                   /\ cacheNames' = CachesOpen(cacheNames, n)
             /\ (ev[e].w = "put" /\ ev'[e].w = "stored") =>
                   /\ cacheNames' = cacheNames
                   /\ \A o \in StoreNames \ {n} :
                         cacheEntries'[o] = cacheEntries[o]
                   /\ Others(cacheEntries'[n], k) = Others(cacheEntries[n], k)
                   /\ Entry(k, ev[e].net) \in cacheEntries'[n]
             /\ (\/ ev'[e].pc # ev[e].pc
                 \/ ev[e].w = "none" /\ ev'[e].w # "none"
                 \/ ev[e].w = "put" /\ ev'[e].w = "failed"
                 \/ ev[e].w = "unlinked" /\ ev'[e].w = "lost") =>
                   /\ cacheNames' = cacheNames
                   /\ cacheEntries' = cacheEntries]_vars

\* this version stored /menu/?page=2 next to the /menu/ of its install
\* batch, and the old version had stored a response in its own store
C20_Witness ==
    \E e1, e2 \in Events :
       /\ e1 \in OldEvents
       /\ ev[e1].w = "stored"
       /\ e2 \in OwnEvents
       /\ ev[e2].w = "stored"
       /\ Url(ev[e2].req) = "/menu/?page=2"
       /\ Entry("/menu/", NetResp(200, InstallBody)) \in cacheEntries[CACHE_NAME]
       /\ Entry("/menu/?page=2", ev[e2].net) \in cacheEntries[CACHE_NAME]

====
